---------------------------- MODULE Spec2Model ----------------------------
(***************************************************************************)
(* Model of the RAG agent of nicobrave/ragpv: the /query endpoint           *)
(* (src/api/endpoints.py: query_agent, consultar_bd), the hybrid retriever  *)
(* (src/rag_engine/retriever.py: SupabaseRetriever) and the generator       *)
(* (src/rag_engine/generator.py: generate_response).                        *)
(*                                                                         *)
(* Texts are sequences of one-character strings, so that upper(), strip(),  *)
(* substring tests and the regular expressions of the source are computed   *)
(* character by character.  Accented letters are written with a following   *)
(* apostrophe ("A'" is A-acute), "N~" is N-tilde, "?i" the inverted         *)
(* question mark.                                                           *)
(***************************************************************************)
EXTENDS Integers, Sequences, FiniteSets, TLC

VARIABLES
    environ,        \* os.environ: the names of the variables that are set
    pc,             \* position of the request inside query_agent
    request,        \* QueryRequest: [query, user_id]
    documentos,     \* rows of table documentos_embeddings
    historial,      \* rows of table conversacion_historial
    historial_str,  \* the history block read at step 1
    routing,        \* response of the routing call (function call or text)
    args_dict,      \* arguments handed to consultar_bd after adaptation
    resultado_crudo,\* what consultar_bd returned
    condiciones,    \* retrieve_context: conditions of the full filter
    combos,         \* retrieve_context: pair filters still to try
    results_data,   \* retrieve_context: rows found so far
    query_embedding,\* retrieve_context: what _create_embedding returned
    relevant_docs,  \* Documents returned by retrieve_context
    respuesta_final,\* the answer text
    outcome,        \* what the caller got: none, a response or HTTP 500
    calls           \* every call made to a collaborator, in order

vars == <<environ, pc, request, documentos, historial, historial_str, routing,
          args_dict, resultado_crudo, condiciones, combos, results_data,
          query_embedding, relevant_docs, respuesta_final, outcome, calls>>

---------------------------------------------------------------------------
(* Characters and Python's str operations                                  *)

Digit == {"0","1","2","3","4","5","6","7","8","9"}

UpperSeq == <<"A","B","C","D","E","F","G","H","I","J","K","L","M","N","O",
              "P","Q","R","S","T","U","V","W","X","Y","Z",
              "A'","E'","I'","O'","U'","N~">>

LowerSeq == <<"a","b","c","d","e","f","g","h","i","j","k","l","m","n","o",
              "p","q","r","s","t","u","v","w","x","y","z",
              "a'","e'","i'","o'","u'","n~">>

\* [A-Z]
UpperAZ == {UpperSeq[i] : i \in 1..26}

\* [A-ZÁÉÍÓÚÑ]
UpperAcc == {UpperSeq[i] : i \in 1..Len(UpperSeq)}

\* [A-Z0-9]
UpperAZ09 == UpperAZ \cup Digit

\* \w of Python 3 (unicode): letters, digits and the underscore
WordChar == UpperAcc \cup {LowerSeq[i] : i \in 1..Len(LowerSeq)} \cup Digit \cup {"_"}

\* str.isspace() characters of the alphabet
Whitespace == {" ", "\n", "\t"}

\* the upper-case letter of each lower-case letter
UpperOf ==
    [c \in {LowerSeq[i] : i \in 1..Len(LowerSeq)} |->
        UpperSeq[CHOOSE i \in 1..Len(LowerSeq) : LowerSeq[i] = c]]

UpperChar(c) == IF c \in DOMAIN UpperOf THEN UpperOf[c] ELSE c

\* str.upper()
Upper(s) == [i \in 1..Len(s) |-> UpperChar(s[i])]

\* t in s
Contains(s, t) ==
    \E i \in 1..(Len(s) - Len(t) + 1) : SubSeq(s, i, i + Len(t) - 1) = t

\* str.strip()
Strip(s) ==
    LET keep == {i \in 1..Len(s) : s[i] \notin Whitespace}
    IN  IF keep = {} THEN <<>>
        ELSE SubSeq(s, CHOOSE i \in keep : \A j \in keep : i <= j,
                       CHOOSE i \in keep : \A j \in keep : j <= i)

RECURSIVE Join(_, _)
\* sep.join(parts)
Join(sep, parts) ==
    IF parts = <<>> THEN <<>>
    ELSE IF Len(parts) = 1 THEN parts[1]
    ELSE parts[1] \o sep \o Join(sep, Tail(parts))

\* PostgreSQL: column ILIKE '%valor%' (case-insensitive containment; the
\* alphabet holds none of the LIKE wildcards % and _)
ILike(texto, valor) == Contains(Upper(texto), Upper(valor))

Max0(S) == IF S = {} THEN 0 ELSE CHOOSE k \in S : \A j \in S : j <= k

Min2(a, b) == IF a <= b THEN a ELSE b

---------------------------------------------------------------------------
(* Regular expressions of extractar_valores_relevantes.  Each M_x(s, i) is *)
(* the length of the match of pattern x that starts at position i of s, or *)
(* 0 when there is none (no pattern matches the empty string).             *)

\* s[i .. i+k-1] exists and lies in class C
AllIn(s, i, k, C) == i + k - 1 <= Len(s) /\ \A j \in i..(i + k - 1) : s[j] \in C

IsWordAt(s, i) == i >= 1 /\ i <= Len(s) /\ s[i] \in WordChar

\* \b between s[i-1] and s[i]
Bnd(s, i) == IsWordAt(s, i - 1) # IsWordAt(s, i)

CharAt(s, i, c) == i >= 1 /\ i <= Len(s) /\ s[i] = c

\* length of the longest run of characters of class C starting at i
RunLen(s, i, C) == Max0({k \in 1..(Len(s) - i + 1) : AllIn(s, i, k, C)})

\* \b\d{lo,hi}\b
M_digits(s, i, lo, hi) ==
    Max0({k \in lo..hi : Bnd(s, i) /\ AllIn(s, i, k, Digit) /\ Bnd(s, i + k)})

\* \b\d{6,7}C\b
M_hr(s, i) ==
    Max0({k + 1 : k \in {k \in 6..7 : /\ Bnd(s, i)
                                    /\ AllIn(s, i, k, Digit)
                                    /\ CharAt(s, i + k, "C")
                                    /\ Bnd(s, i + k + 1)}})

\* [A-Z]{4} \d{6,7}-\d
M_contenedor(s, i) ==
    Max0({k + 7 : k \in {k \in 6..7 : /\ AllIn(s, i, 4, UpperAZ)
                                    /\ CharAt(s, i + 4, " ")
                                    /\ AllIn(s, i + 5, k, Digit)
                                    /\ CharAt(s, i + 5 + k, "-")
                                    /\ AllIn(s, i + 6 + k, 1, Digit)}})

\* IMPO|EXPO
M_tipo(s, i) ==
    IF i + 3 <= Len(s) /\ SubSeq(s, i, i + 3) \in {<<"I","M","P","O">>, <<"E","X","P","O">>}
    THEN 4 ELSE 0

\* T\d{2,3}(?: \([A-Z0-9]+\))?
M_tracto(s, i) ==
    LET d == Max0({k \in 2..3 : CharAt(s, i, "T") /\ AllIn(s, i + 1, k, Digit)})
        p == i + 1 + d      \* position after the digits
        r == RunLen(s, p + 2, UpperAZ09)
        grp == IF CharAt(s, p, " ") /\ CharAt(s, p + 1, "(") /\ r >= 1
                  /\ CharAt(s, p + 2 + r, ")")
               THEN r + 3 ELSE 0
    IN  IF d = 0 THEN 0 ELSE 1 + d + grp

\* \b[A-Z0-9]{6}\b
M_trailer(s, i) ==
    IF Bnd(s, i) /\ AllIn(s, i, 6, UpperAZ09) /\ Bnd(s, i + 6) THEN 6 ELSE 0

RECURSIVE MoreWords(_, _)
\* (?: [A-ZÁÉÍÓÚÑ]{2,})* from position p: the length it consumes
MoreWords(s, p) ==
    LET r == RunLen(s, p + 1, UpperAcc)
    IN  IF CharAt(s, p, " ") /\ r >= 2 THEN 1 + r + MoreWords(s, p + 1 + r)
        ELSE 0

\* ([A-ZÁÉÍÓÚÑ]{2,}(?: [A-ZÁÉÍÓÚÑ]{2,}){1,})
M_conductor(s, i) ==
    LET r == RunLen(s, i, UpperAcc)
        m == MoreWords(s, i + r)
    IN  IF r >= 2 /\ m > 0 THEN r + m ELSE 0

\* \b\d{7,8}-[\dkK]\b
M_rut(s, i) ==
    Max0({k + 2 : k \in {k \in 7..8 : /\ Bnd(s, i)
                                    /\ AllIn(s, i, k, Digit)
                                    /\ CharAt(s, i + k, "-")
                                    /\ AllIn(s, i + k + 1, 1, Digit \cup {"k", "K"})
                                    /\ Bnd(s, i + k + 2)}})

\* \d{4}-\d{2}-\d{2}
M_fecha(s, i) ==
    IF /\ AllIn(s, i, 4, Digit) /\ CharAt(s, i + 4, "-")
       /\ AllIn(s, i + 5, 2, Digit) /\ CharAt(s, i + 7, "-")
       /\ AllIn(s, i + 8, 2, Digit)
    THEN 10 ELSE 0

\* container_id_pattern, ([A-Z]{4})\s?(\d{6,7}): the groups (prefix, serial)
\* of the match that starts at position i, or <<>> when there is none
M_container_id(s, i) ==
    LET sp == IF i + 4 <= Len(s) /\ s[i + 4] \in Whitespace THEN 1 ELSE 0
        d == Max0({k \in 6..7 : AllIn(s, i, 4, UpperAZ) /\ AllIn(s, i + 4 + sp, k, Digit)})
    IN  IF d = 0 THEN <<>>
        ELSE <<SubSeq(s, i, i + 3), SubSeq(s, i + 4 + sp, i + 3 + sp + d)>>

RECURSIVE FindAllFrom(_, _, _)
\* re.findall: the non-overlapping matches, scanning from the left; ml[i] is
\* the length of the match starting at i
FindAllFrom(s, ml, i) ==
    IF i > Len(s) THEN <<>>
    ELSE IF ml[i] > 0
         THEN <<SubSeq(s, i, i + ml[i] - 1)>> \o FindAllFrom(s, ml, i + ml[i])
         ELSE FindAllFrom(s, ml, i + 1)

FindAll(s, ml) == FindAllFrom(s, ml, 1)

\* the elements of a lexicon (a list) that occur in the text, in list order
InText(lexicon, texto) == SelectSeq(lexicon, LAMBDA w : Contains(texto, w))

---------------------------------------------------------------------------
(* SupabaseRetriever.extractar_valores_relevantes                           *)

clientes_conocidos ==
    << <<"G","O","O","D","Y","E","A","R">>,
       <<"P","&","G">>,
       <<"F","A","L","A","B","E","L","L","A">>,
       <<"A","R","C","O","R">> >>

estados_conocidos ==
    << <<"C","A","R","G","A"," ","C","L","I","E","N","T","E">>,
       <<"D","E","V","O","L","U","C","I","O","N"," ","V","A","C","I","O">>,
       <<"D","E","S","C","A","R","G","A"," ","C","L","I","E","N","T","E">>,
       <<"I","N","T","E","R","M","E","D","I","A">> >>

modalidades ==
    << <<"E","M","P","T","Y">>,
       <<"F","U","L","L">> >>

lugares_frecuentes ==
    << <<"C","C","T","I">>,
       <<"P","L","A","N","T","A"," ","M","A","I","P","U">>,
       <<"P","&","G"," ","M","A","C","U","L">>,
       <<"D","Y","C"," ","S","C","L">>,
       <<"S","A","N"," ","A","N","T","O","N","I","O">>,
       <<"V","A","L","P","A","R","A","I'","S","O">>,
       <<"S","A","N","T","I","A","G","O">>,
       <<"C","D"," ","A","R","C","O","R">>,
       <<"C","O","N","T","O","P","S","A"," ","S","C","L">> >>

usuarios_conocidos ==
    << <<"B","A","R","B","A","R","A"," ","R","U","I","Z">> >>

faenas ==
    << <<"L","O","C","A","L","E","R","O","S">> >>

areas_negocio ==
    << <<"C","O","N","T","E","N","E","D","O","R","E","S">> >>

tipos_contenedor ==
    << <<"4","0"," ","H","C">> >>

sistemas ==
    << <<"T","M","S">> >>

descripciones ==
    << <<"N","O">> >>

extractar_valores_relevantes(query) ==
    LET texto == Upper(query)
        P == 1..Len(texto)
        fechas == FindAll(texto, [i \in P |-> M_fecha(texto, i)])
        rut == FindAll(texto, [i \in P |-> M_rut(texto, i)])
        nombres == FindAll(texto, [i \in P |-> M_conductor(texto, i)])
        lugares == InText(lugares_frecuentes, texto)
    IN  [ numero          |-> FindAll(texto, [i \in P |-> M_digits(texto, i, 6, 7)]),
          hr              |-> FindAll(texto, [i \in P |-> M_hr(texto, i)]),
          cliente         |-> InText(clientes_conocidos, texto),
          contenedor      |-> FindAll(texto, [i \in P |-> M_contenedor(texto, i)]),
          tipo            |-> FindAll(texto, [i \in P |-> M_tipo(texto, i)]),
          tracto          |-> FindAll(texto, [i \in P |-> M_tracto(texto, i)]),
          trailer         |-> FindAll(texto, [i \in P |-> M_trailer(texto, i)]),
          conductor       |-> SelectSeq(nombres,
                                LAMBDA n : \A j \in 1..Len(clientes_conocidos) :
                                              n # clientes_conocidos[j]),
          rut             |-> rut,
          estado          |-> InText(estados_conocidos, texto),
          modalidad       |-> InText(modalidades, texto),
          origen_nombre   |-> lugares,
          destino_nombre  |-> lugares,
          fecha_emision   |-> fechas,
          produccion      |-> FindAll(texto, [i \in P |-> M_digits(texto, i, 4, 6)]),
          rut_conductor   |-> rut,
          fecha_viaje     |-> fechas,
          usuario         |-> InText(usuarios_conocidos, texto),
          faena           |-> InText(faenas, texto),
          eta_edt         |-> fechas,
          area_negocio    |-> InText(areas_negocio, texto),
          tipo_contenedor |-> InText(tipos_contenedor, texto),
          sistema         |-> InText(sistemas, texto),
          descripcion     |-> InText(descripciones, texto),
          id_contenedor   |-> FindAll(texto, [i \in P |-> M_digits(texto, i, 6, 6)]),
          id_conductor    |-> FindAll(texto, [i \in P |-> M_digits(texto, i, 4, 6)]),
          piso_chasis     |-> FindAll(texto, [i \in P |-> M_digits(texto, i, 1, 3)]) ]

---------------------------------------------------------------------------
(* SupabaseRetriever.retrieve_context: the filters it builds                *)

\* the keys of mapeo_columnas, in the order of the dict literal
mapeo_campos ==
    << "tracto", "cliente", "contenedor", "conductor", "rut", "estado",
       "modalidad", "origen_nombre", "destino_nombre", "fecha_emision",
       "faena", "tipo", "trailer", "hr", "numero", "produccion", "usuario",
       "eta_edt", "area_negocio", "tipo_contenedor", "sistema", "descripcion",
       "id_contenedor", "id_conductor", "piso_chasis" >>

\* mapeo_columnas[campo]: every field is searched in column 'fragmento'
mapeo_columnas(campo) == "fragmento"

\* campo.startswith('fecha'), over the field names of resultados
StartsWithFecha(campo) == campo \in {"fecha_emision", "fecha_viaje"}

\* the condition appended for one extracted value of a field
Condicion(campo, valor) ==
    IF StartsWithFecha(campo) /\ Len(valor) >= 10
    THEN <<mapeo_columnas(campo), SubSeq(valor, 1, 10)>>
    ELSE <<mapeo_columnas(campo), valor>>

RECURSIVE CondicionesFrom(_, _)
\* the loop over mapeo_columnas.items() and over the values of each field
CondicionesFrom(valores, k) ==
    IF k > Len(mapeo_campos) THEN <<>>
    ELSE LET campo == mapeo_campos[k]
             vs == valores[campo]
         IN  [j \in 1..Len(vs) |-> Condicion(campo, vs[j])]
             \o CondicionesFrom(valores, k + 1)

BuildCondiciones(valores) == CondicionesFrom(valores, 1)

\* the priority list of the pair fallback
prioridad == << "tracto", "cliente", "fecha_emision", "contenedor", "conductor" >>

\* valores_relevantes: (columna, first value) of the priority fields that
\* have a value, in priority order
valores_relevantes(valores) ==
    LET con == SelectSeq(prioridad, LAMBDA campo : valores[campo] # <<>>)
    IN  [j \in 1..Len(con) |-> <<mapeo_columnas(con[j]), valores[con[j]][1]>>]

RECURSIVE PairsFrom(_, _, _)
\* itertools.combinations(xs, 2): pairs (i, j), i < j, in lexicographic order
PairsFrom(xs, i, j) ==
    IF i >= Len(xs) THEN <<>>
    ELSE IF j > Len(xs) THEN PairsFrom(xs, i + 1, i + 2)
    ELSE << <<xs[i], xs[j]>> >> \o PairsFrom(xs, i, j + 1)

\* mutant: the pairs in the opposite order
Combinations2_Reversed(xs) ==
    LET ps == PairsFrom(xs, 1, 2)
    IN  [j \in 1..Len(ps) |-> ps[Len(ps) + 1 - j]]

Combinations2(xs) == PairsFrom(xs, 1, 2)

---------------------------------------------------------------------------
(* Program constants                                                       *)

\* retrieve_context(query, match_count=5, match_threshold=0.65)
DefaultMatchCount == 5

\* match_threshold, in hundredths
DefaultMatchThreshold == 65

\* build_and_execute: query_builder.limit(10)
KeywordLimit == 10

\* consultar_bd, SELECT: select_query.limit(10)
SelectLimit == 10

\* query_agent: the history read, .limit(10)
HistoryLimit == 10

\* generate_response: the text returned when the model call raises
FallbackMessage ==
    <<"H","u","b","o"," ","u","n"," ","e","r","r","o","r"," ","a","l"," ",
      "i","n","t","e","n","t","a","r"," ","g","e","n","e","r","a","r"," ",
      "l","a"," ","r","e","s","p","u","e","s","t","a",".">>

\* item.get('fuente', 'desconocido')
Desconocido == <<"d","e","s","c","o","n","o","c","i","d","o">>

\* Python's None for a user id (a string that no request carries)
None == "<None>"

\* Python truthiness of an Optional[str]
Truthy(s) == s # None /\ s # ""

\* Optional values are sequences of length 0 (None) or 1
Some(v) == <<v>>

---------------------------------------------------------------------------
(* The data store (Supabase/PostgREST), as the code uses it                *)

\* the first n elements of a sequence
Take(s, n) == SubSeq(s, 1, Min2(n, Len(s)))

Reverse(s) == [i \in 1..Len(s) |-> s[Len(s) + 1 - i]]

\* the columns the code reads or writes in each table
TableColumns(tabla) ==
    CASE tabla = "documentos_embeddings" -> {"id", "fragmento", "fuente"}
      [] tabla = "conversacion_historial" -> {"id_usuario", "rol", "contenido"}
      [] OTHER -> {}

TableRows(tabla, docs, hist) ==
    CASE tabla = "documentos_embeddings" -> docs
      [] tabla = "conversacion_historial" -> hist
      [] OTHER -> <<>>

\* A query of the query builder: table(t).select(cols)[.ilike(c, '%v%')]*
\* [.eq(c, v)][.order(creado_en, desc)][.limit(n)].  ilike holds the pairs
\* (column, v); limit is optional.
SelectQuery(tabla, columns, ilike, eq, desc, limit) ==
    [ api |-> "select", target |-> tabla, columns |-> columns,
      ilike |-> ilike, eq |-> eq, desc |-> desc, limit |-> limit ]

\* PostgREST rejects a query on a table or column that does not exist
QueryValid(q) ==
    /\ TableColumns(q.target) # {}
    /\ \A j \in 1..Len(q.ilike) : q.ilike[j][1] \in TableColumns(q.target)
    /\ \A j \in 1..Len(q.eq) : q.eq[j][1] \in TableColumns(q.target)
    /\ q.columns \subseteq TableColumns(q.target)

\* the rows that satisfy every filter of the query, in the store's order
\* (newest first under order(desc)), before the limit
MatchingRows(q, docs, hist) ==
    LET rows == TableRows(q.target, docs, hist)
        hit == SelectSeq(rows, LAMBDA r :
                   /\ \A j \in 1..Len(q.ilike) : ILike(r[q.ilike[j][1]], q.ilike[j][2])
                   /\ \A j \in 1..Len(q.eq) : r[q.eq[j][1]] = q.eq[j][2])
    IN  IF q.desc THEN Reverse(hit) ELSE hit

\* response.data: the selected columns of the matching rows, cut at the limit
QueryData(q, docs, hist) ==
    LET hit == MatchingRows(q, docs, hist)
        cut == IF q.limit = <<>> THEN hit ELSE Take(hit, q.limit[1])
    IN  [j \in 1..Len(cut) |-> [c \in q.columns |-> cut[j][c]]]

\* response.count under count='exact': every matching row
QueryCount(q, docs, hist) == Len(MatchingRows(q, docs, hist))

\* rpc('match_documentos', {query_embedding, match_threshold, match_count}):
\* the n nearest rows above the threshold, n <= match_count, each with its
\* similarity.  Which rows are near is the store's business: any prefix.
RpcMatch(match_threshold, match_count) ==
    [ api |-> "rpc", target |-> "match_documentos",
      match_threshold |-> match_threshold, match_count |-> match_count ]

MatchDocumentos(q, docs, n, sim) ==
    LET near == Take(docs, Min2(n, q.match_count))
    IN  [j \in 1..Len(near) |->
            [ id |-> near[j].id, fragmento |-> near[j].fragmento,
              fuente |-> near[j].fuente, similarity |-> sim ]]

\* rpc('agregar_columna', ...) and rpc('seleccionar_distintos', ...)
RpcAggregate(fn, operacion, p_columna_regex, p_filtros) ==
    [ api |-> "rpc", target |-> fn, p_operacion |-> operacion,
      p_columna_regex |-> p_columna_regex, p_filtros |-> p_filtros ]

\* table('conversacion_historial').insert([...])
InsertQuery(tabla, rows) == [ api |-> "insert", target |-> tabla, rows |-> rows ]

\* calls to the language models and to the embedding model
ModelCall(api, model, purpose, input) ==
    [ api |-> api, target |-> model, purpose |-> purpose, input |-> input ]

---------------------------------------------------------------------------
(* Bounds and inputs                                                       *)

\* copies of one fragment a store may hold (more than every limit)
MaxCopies == 11

\* how many rows the similarity search may find near (before match_count)
MaxNear == 6

Q_T209 == <<"T","2","0","9">>

Q_Hola == <<"h","o","l","a">>

Q_Goodyear ==
    <<"G","o","o","d","y","e","a","r"," ","T","2","0","9"," ",
      "2","0","2","4","-","0","5","-","0","1">>

Q_Arcor == <<"A","r","c","o","r"," ","T","2","0","9">>

Q_Tractor ==
    <<"?i","C","u","a'","n","t","o","s"," ","c","o","n","t","e","n","e","d","o","r","e","s"," ",
      "t","i","e","n","e"," ","e","l"," ","t","r","a","c","t","o","r"," ","T","2","0","9","?">>

Queries == {Q_T209, Q_Hola, Q_Goodyear, Q_Arcor, Q_Tractor}

UserIds == {None, "", "u1"}

Fuente == <<"v","i","a","j","e","s",".","x","l","s","x">>

F_T209 ==
    <<"T","r","a","c","t","o",":"," ","T","2","0","9"," ",
      "C","l","i","e","n","t","e",":"," ","G","o","o","d","y","e","a","r">>

F_Fecha ==
    <<"T","r","a","c","t","o",":"," ","T","3","1","0"," ",
      "C","l","i","e","n","t","e",":"," ","G","o","o","d","y","e","a","r"," ",
      "F","e","c","h","a",":"," ","2","0","2","4","-","0","5","-","0","1">>

\* a table with a copies of F_T209 followed by b copies of F_Fecha
Store(a, b) ==
    [j \in 1..(a + b) |->
        [ id |-> j, fragmento |-> IF j <= a THEN F_T209 ELSE F_Fecha,
          fuente |-> Fuente ]]

Stores == {Store(a, b) : a \in {0, 1, MaxCopies}, b \in {0, 1}}

T_user == <<"u","s","e","r">>

T_ai == <<"a","i">>

T_Si == <<"S","i">>

\* texts a language model may answer with
LlmTexts == {T_Si, <<" ","S","i","\n">>}

Turn(uid, rol, contenido) == [id_usuario |-> uid, rol |-> rol, contenido |-> contenido]

Historiales ==
    { <<>>,
      <<Turn("u2", T_user, Q_Hola), Turn("u1", T_user, Q_Hola), Turn("u1", T_ai, T_Si)>> }

Op_SELECT == <<"S","E","L","E","C","T">>

Op_COUNT == <<"C","O","U","N","T">>

Op_SUM == <<"S","U","M">>

Op_AVG == <<"A","V","G">>

Op_MAX == <<"M","A","X">>

Op_MIN == <<"M","I","N">>

Op_DISTINCT == <<"S","E","L","E","C","T"," ","D","I","S","T","I","N","C","T">>

\* 'columna' values: absent, the empty string, a regex
ColumnaArgs == {<<>>, Some(<<>>), Some(<<"[","0","-","9","]","+">>)}

V_Goodyear == <<"G","o","o","d","y","e","a","r">>

V_T209 == <<"t","2","0","9">>

V_Cliente == <<"c","l","i","e","n","t","e",":">>

\* 'filtros' values: absent, {}, one key, two keys, one key with an empty value
FiltrosArgs ==
    { <<>>, Some(<<>>),
      Some(<< <<"cliente", V_Goodyear>> >>),
      Some(<< <<"tracto", V_T209>>, <<"etiqueta", V_Cliente>> >>),
      Some(<< <<"estado", <<>> >> >>) }

\* 'operacion' values: absent, the seven operations (some in lower case),
\* an operation outside the grammar
OperacionArgs ==
    { <<>>, Some(Op_SELECT), Some(<<"c","o","u","n","t">>), Some(Op_SUM),
      Some(<<"a","v","g">>), Some(Op_DISTINCT), Some(<<"D","E","L","E","T","E">>) }

TablaArgs == {<<>>, Some("documentos_embeddings"), Some("conversacion_historial")}

\* the dict with the keys that are present
MkArgs(tabla, operacion, columna, filtros) ==
    LET opt == [tabla |-> tabla, operacion |-> operacion,
                columna |-> columna, filtros |-> filtros]
    IN  [k \in {k \in DOMAIN opt : opt[k] # <<>>} |-> opt[k][1]]

FunctionCall(name, args) == [kind |-> "function_call", name |-> name, args |-> args]

TextPart == [kind |-> "text"]

\* the calls the routing model may make: every operation with every regex
\* and filter on the default table, and the table given for SELECT and COUNT
CallsConsultarBd ==
    { FunctionCall("consultar_bd", MkArgs(<<>>, o, c, f)) :
        o \in OperacionArgs, c \in ColumnaArgs, f \in FiltrosArgs }
    \cup
    { FunctionCall("consultar_bd", MkArgs(t, o, <<>>, f)) :
        t \in TablaArgs, o \in {Some(Op_SELECT), Some(<<"c","o","u","n","t">>)},
        f \in {<<>>, Some(<< <<"cliente", V_Goodyear>> >>)} }

SampleCall ==
    FunctionCall("consultar_bd",
                 MkArgs(<<>>, Some(Op_SELECT), <<>>, Some(<< <<"cliente", V_Goodyear>> >>)))

\* response.candidates, each candidate the list of its content.parts
RoutingResponses ==
    { << <<fc>> >> : fc \in CallsConsultarBd }
    \cup { <<>>,                          \* no candidate
           << <<>> >>,                    \* a candidate without parts
           << <<TextPart>> >>,            \* free text
           << <<TextPart, SampleCall>> >>,\* a call that is not the first part
           << <<FunctionCall("otra_funcion", SampleCall.args)>> >> }

---------------------------------------------------------------------------
(* consultar_bd and the adaptation of the function call's arguments        *)

\* query_agent, lines 177-192: columna -> p_columna_regex, the default
\* table, and the coercion of every filter onto column 'fragmento'
RenameColumna(args) ==
    IF "columna" \in DOMAIN args
    THEN [k \in (DOMAIN args \ {"columna"}) \cup {"p_columna_regex"} |->
            IF k = "p_columna_regex" THEN args["columna"] ELSE args[k]]
    ELSE args

DefaultTabla(args) ==
    IF "tabla" \notin DOMAIN args
    THEN [k \in DOMAIN args \cup {"tabla"} |->
            IF k = "tabla" THEN "documentos_embeddings" ELSE args[k]]
    ELSE args

\* " ".join(str(v) for v in filtros.values())
SearchValue(filtros) == Join(<<" ">>, [j \in 1..Len(filtros) |-> filtros[j][2]])

\* mutant: the filters reach consultar_bd as the model supplied them
CoerceFiltros_Skipped(args) == args

CoerceFiltros(args) ==
    IF "filtros" \in DOMAIN args /\ args["filtros"] # <<>>
    THEN [args EXCEPT !["filtros"] = << <<"fragmento", SearchValue(args["filtros"])>> >>]
    ELSE args

AdaptArgs(args) == CoerceFiltros(DefaultTabla(RenameColumna(args)))

\* a keyword argument of consultar_bd, None (<<>>) when it is not passed
Arg(d, k) == IF k \in DOMAIN d THEN Some(d[k]) ELSE <<>>

\* not p_columna_regex: None or the empty string
NotColumna(d) == Arg(d, "p_columna_regex") \in {<<>>, Some(<<>>)}

\* not filtros: None or the empty dict
NotFiltros(d) == Arg(d, "filtros") \in {<<>>, Some(<<>>)}

\* consultar_bd(**args_dict) raises TypeError before its body runs when the
\* required arguments are missing or a keyword is unknown
BadSignature(d) ==
    \/ ~ ({"tabla", "operacion"} \subseteq DOMAIN d)
    \/ ~ (DOMAIN d \subseteq {"tabla", "operacion", "p_columna_regex", "filtros"})

\* the ilike filters COUNT and SELECT add: one per item of filtros
FiltrosIlike(d) == IF NotFiltros(d) THEN <<>> ELSE d["filtros"]

\* mutant: SELECT without the limit
SelectCall_NoLimit(d) ==
    SelectQuery(d["tabla"], {"fragmento"}, FiltrosIlike(d), <<>>, FALSE, <<>>)

\* SELECT: query.select('fragmento')[.ilike(...)]*.limit(10)
SelectCall(d) ==
    SelectQuery(d["tabla"], {"fragmento"}, FiltrosIlike(d), <<>>, FALSE,
                Some(SelectLimit))

\* mutant: an operation that is not supported runs as a SELECT
UnsupportedOperation_RunsSelect(d) == [raises |-> "", call |-> SelectCall(d)]

\* raise ValueError(f"Operacion no soportada: {operacion}")
UnsupportedOperation(d) == [raises |-> "ValueError"]

\* What consultar_bd does with its arguments: it raises before any call to
\* the store, or it issues exactly one call.
ConsultarBdPlan(d) ==
    IF BadSignature(d) THEN [raises |-> "TypeError"]
    ELSE
    LET op == Upper(d["operacion"])
    IN  IF op \in {Op_SUM, Op_AVG, Op_MAX, Op_MIN}
        THEN IF NotColumna(d) \/ NotFiltros(d)
             THEN [raises |-> "ValueError"]
             ELSE [raises |-> "",
                   call |-> RpcAggregate("agregar_columna", op,
                                         d["p_columna_regex"], d["filtros"])]
        ELSE IF op = Op_DISTINCT
        THEN IF NotColumna(d) \/ NotFiltros(d)
             THEN [raises |-> "ValueError"]
             ELSE [raises |-> "",
                   call |-> RpcAggregate("seleccionar_distintos", <<>>,
                                         d["p_columna_regex"], d["filtros"])]
        ELSE IF op = Op_COUNT
        THEN [raises |-> "",
              call |-> SelectQuery(d["tabla"], {}, FiltrosIlike(d), <<>>, FALSE, <<>>)]
        ELSE IF op = Op_SELECT
        THEN [raises |-> "", call |-> SelectCall(d)]
        ELSE UnsupportedOperation(d)

\* the value consultar_bd returns for the store's answer to its call; agg is
\* what the aggregation function computed
ConsultarBdResult(d, call, docs, hist, agg) ==
    IF call.api = "rpc" THEN [kind |-> "aggregate", value |-> agg]
    ELSE IF Upper(d["operacion"]) = Op_COUNT
         THEN [kind |-> "count", value |-> QueryCount(call, docs, hist)]
         ELSE [kind |-> "rows", value |-> QueryData(call, docs, hist)]

\* whether the store accepts the call
StoreAccepts(call) == call.api = "rpc" \/ QueryValid(call)

---------------------------------------------------------------------------
(* retrieve_context: queries and the standardised output                    *)

\* build_and_execute(condiciones): the query it sends
KeywordQuery(conds) ==
    SelectQuery("documentos_embeddings", {"fragmento", "fuente"}, conds, <<>>,
                FALSE, Some(KeywordLimit))

\* response.data if response.data else []
build_and_execute(conds, docs, hist) == QueryData(KeywordQuery(conds), docs, hist)

\* item.get(key, default)
Get(item, key, default) == IF key \in DOMAIN item THEN item[key] ELSE default

\* the Document built from a row
ToDocument(item) ==
    [ page_content |-> Get(item, "fragmento", <<>>),
      metadata |-> [ source |-> Get(item, "fuente", Desconocido),
                     id |-> Get(item, "id", 0),
                     similarity |-> IF "similarity" \in DOMAIN item
                                    THEN Some(item["similarity"]) ELSE <<>> ] ]

ToDocuments(rows) == [j \in 1..Len(rows) |-> ToDocument(rows[j])]

\* the pair filters of the fallback, in the order they are tried
PairFilters(valores) ==
    LET cs == Combinations2(valores_relevantes(valores))
    IN  [j \in 1..Len(cs) |-> <<cs[j][1], cs[j][2]>>]

---------------------------------------------------------------------------
(* query_agent                                                             *)

\* step 1: the last turns of the user, newest first
HistoryQuery(uid) ==
    SelectQuery("conversacion_historial", TableColumns("conversacion_historial"),
                <<>>, << <<"id_usuario", uid>> >>, TRUE, Some(HistoryLimit))

\* "\n".join(f"{msg['rol']}: {msg['contenido']}" for msg in reversed(data))
FormatHistory(data) ==
    LET old == Reverse(data)
    IN  Join(<<"\n">>, [j \in 1..Len(old) |->
                            old[j].rol \o <<":", " ">> \o old[j].contenido])

\* mutant: the name of the function called is not looked at
IsConsultarBdCall_AnyName(response) ==
    /\ response # <<>>
    /\ response[1] # <<>>
    /\ response[1][1].kind = "function_call"

\* step 4: the first part of the first candidate is a call of consultar_bd
IsConsultarBdCall(response) ==
    /\ response # <<>>
    /\ response[1] # <<>>
    /\ response[1][1].kind = "function_call"
    /\ response[1][1].name = "consultar_bd"

\* helpers.documents_to_string
documents_to_string(documents) ==
    Join(<<"\n">>, [j \in 1..Len(documents) |->
        <<"F","u","e","n","t","e",":"," ">> \o documents[j].metadata.source
        \o <<"\n","C","o","n","t","e","n","i","d","o",":"," ">>
        \o documents[j].page_content \o <<"\n","-","-","-">>])

\* mutant: only the assistant turn is stored
HistoryRows_AiOnly(uid, query, respuesta) ==
    << Turn(uid, T_ai, respuesta) >>

\* the two rows appended to the history
HistoryRows(uid, query, respuesta) ==
    << Turn(uid, T_user, query), Turn(uid, T_ai, respuesta) >>

\* values an aggregation of the store may return
AggValues == {1234}

\* outcomes of genai.embed_content: a vector, an exception, no vector
EmbedOutcomes == {"vector", "raises", "empty"}

\* the environment variables SupabaseRetriever.__init__ requires
Credentials == {"SUPABASE_URL", "SUPABASE_SERVICE_ROLE_KEY", "GOOGLE_API_KEY"}

\* SupabaseRetriever(): the exception it raises ("" when it returns)
RetrieverInit(env) == IF Credentials \subseteq env THEN "" ELSE "ConnectionError"

\* the exception classes the module-level try of endpoints.py catches
CaughtAtImport == {"ValueError"}

Init ==
    /\ environ \in SUBSET Credentials
    /\ pc = "import"
    /\ request \in [query : Queries, user_id : UserIds]
    /\ documentos \in Stores
    /\ historial \in Historiales
    /\ historial_str = <<>>
    /\ routing = <<>>
    /\ args_dict = <<>>
    /\ resultado_crudo = <<>>
    /\ condiciones = <<>>
    /\ combos = <<>>
    /\ results_data = <<>>
    /\ query_embedding = "unset"
    /\ relevant_docs = <<>>
    /\ respuesta_final = <<>>
    /\ outcome = [kind |-> "none"]
    /\ calls = <<>>

\* mutant: a call that failed is attempted again from the same step
Raise500_Retries(detail) ==
    /\ pc' = pc
    /\ outcome' = outcome

\* except Exception as e: raise HTTPException(status_code=500, detail=str(e));
\* "at" is the step that raised
Raise500(detail) ==
    /\ pc' = "failed"
    /\ outcome' = [kind |-> "http500", detail |-> detail, at |-> pc]

Issue(call) == calls' = Append(calls, call)

\* ---- import of src.api.endpoints: the module-level construction of the
\* retriever.  An exception that the try does not catch leaves the import,
\* the router is never mounted and no request reaches query_agent.
ImportEndpoints ==
    /\ pc = "import"
    /\ LET e == RetrieverInit(environ)
       IN  IF e # "" /\ e \notin CaughtAtImport
           THEN /\ pc' = "import_failed"
                /\ outcome' = [kind |-> "unserved", detail |-> e]
           ELSE /\ pc' = "start"
                /\ UNCHANGED outcome
    /\ UNCHANGED <<environ, request, query_embedding, documentos, historial,
                   historial_str, routing, args_dict, resultado_crudo,
                   condiciones, combos, results_data, relevant_docs,
                   respuesta_final, calls>>

\* ---- step 1: the history read
ReadHistory ==
    /\ pc = "start"
    /\ Truthy(request.user_id)
    /\ Issue(HistoryQuery(request.user_id))
    /\ historial_str' = FormatHistory(QueryData(HistoryQuery(request.user_id),
                                                documentos, historial))
    /\ pc' = "route"
    /\ UNCHANGED <<environ, request, query_embedding, documentos, historial, routing, args_dict,
                   resultado_crudo, condiciones, combos, results_data,
                   relevant_docs, respuesta_final, outcome>>

ReadHistoryFails ==
    /\ pc = "start"
    /\ Truthy(request.user_id)
    /\ Issue(HistoryQuery(request.user_id))
    /\ Raise500("StoreUnavailable")
    /\ UNCHANGED <<environ, request, query_embedding, documentos, historial, historial_str, routing,
                   args_dict, resultado_crudo, condiciones, combos,
                   results_data, relevant_docs, respuesta_final>>

SkipHistory ==
    /\ pc = "start"
    /\ ~ Truthy(request.user_id)
    /\ pc' = "route"
    /\ UNCHANGED <<environ, request, query_embedding, documentos, historial, historial_str, routing,
                   args_dict, resultado_crudo, condiciones, combos,
                   results_data, relevant_docs, respuesta_final, outcome, calls>>

\* ---- step 3: the routing call (function calling)
RoutingCallOf ==
    ModelCall("generate_content", "gemini-2.5-pro", "routing",
              [query |-> request.query, historial |-> historial_str])

RoutingCall ==
    /\ pc = "route"
    /\ Issue(RoutingCallOf)
    /\ \E response \in RoutingResponses :
          /\ routing' = response
          /\ pc' = IF IsConsultarBdCall(response) THEN "structured" ELSE "retrieve"
    /\ UNCHANGED <<environ, request, query_embedding, documentos, historial, historial_str, args_dict,
                   resultado_crudo, condiciones, combos, results_data,
                   relevant_docs, respuesta_final, outcome>>

RoutingCallFails ==
    /\ pc = "route"
    /\ Issue(RoutingCallOf)
    /\ Raise500("GenerationFailure")
    /\ UNCHANGED <<environ, request, query_embedding, documentos, historial, historial_str, routing,
                   args_dict, resultado_crudo, condiciones, combos,
                   results_data, relevant_docs, respuesta_final>>

\* ---- step 4: the structured query
StructuredRaises ==
    /\ pc = "structured"
    /\ args_dict' = AdaptArgs(routing[1][1].args)
    /\ ConsultarBdPlan(args_dict').raises # ""
    /\ Raise500(ConsultarBdPlan(args_dict').raises)
    /\ UNCHANGED <<environ, request, query_embedding, documentos, historial, historial_str, routing,
                   resultado_crudo, condiciones, combos, results_data,
                   relevant_docs, respuesta_final, calls>>

StructuredOk ==
    /\ pc = "structured"
    /\ args_dict' = AdaptArgs(routing[1][1].args)
    /\ LET plan == ConsultarBdPlan(args_dict')
       IN  /\ plan.raises = ""
           /\ StoreAccepts(plan.call)
           /\ Issue(plan.call)
           /\ \E agg \in AggValues :
                 resultado_crudo' = ConsultarBdResult(args_dict', plan.call,
                                                      documentos, historial, agg)
    /\ pc' = "refine"
    /\ UNCHANGED <<environ, request, query_embedding, documentos, historial, historial_str, routing,
                   condiciones, combos, results_data, relevant_docs,
                   respuesta_final, outcome>>

StructuredStoreFails ==
    /\ pc = "structured"
    /\ args_dict' = AdaptArgs(routing[1][1].args)
    /\ LET plan == ConsultarBdPlan(args_dict')
       IN  /\ plan.raises = ""
           /\ Issue(plan.call)
    /\ Raise500("StoreUnavailable")
    /\ UNCHANGED <<environ, request, query_embedding, documentos, historial, historial_str, routing,
                   resultado_crudo, condiciones, combos, results_data,
                   relevant_docs, respuesta_final>>

\* ---- step 5: the refinement call
RefineCallOf ==
    ModelCall("generate_content", "gemini-1.5-flash", "refine",
              [query |-> request.query, resultado |-> resultado_crudo])

Refine ==
    /\ pc = "refine"
    /\ Issue(RefineCallOf)
    /\ \E text \in LlmTexts : respuesta_final' = Strip(text)
    /\ pc' = "save_fc"
    /\ UNCHANGED <<environ, request, query_embedding, documentos, historial, historial_str, routing,
                   args_dict, resultado_crudo, condiciones, combos,
                   results_data, relevant_docs, outcome>>

RefineFails ==
    /\ pc = "refine"
    /\ Issue(RefineCallOf)
    /\ Raise500("GenerationFailure")
    /\ UNCHANGED <<environ, request, query_embedding, documentos, historial, historial_str, routing,
                   args_dict, resultado_crudo, condiciones, combos,
                   results_data, relevant_docs, respuesta_final>>

\* ---- step 6: retriever.retrieve_context(request.query)
\* extraction and the filters built from it (no call to a collaborator)
RetrieveStart ==
    /\ pc = "retrieve"
    /\ LET valores == extractar_valores_relevantes(request.query)
       IN  /\ condiciones' = BuildCondiciones(valores)
           /\ combos' = PairFilters(valores)
    /\ pc' = IF condiciones' # <<>> THEN "kw_full" ELSE "kw_pairs"
    /\ UNCHANGED <<environ, request, query_embedding, documentos, historial, historial_str, routing,
                   args_dict, resultado_crudo, results_data, relevant_docs,
                   respuesta_final, outcome, calls>>

\* mutant: rows were found, and the remaining strategies run all the same
KeywordHit_FallsThrough(rows) ==
    /\ results_data' = rows
    /\ relevant_docs' = ToDocuments(rows)
    /\ pc' = "kw_pairs"

\* where retrieve_context goes after a keyword query that found rows: it
\* skips the remaining strategies and returns the rows as Documents
KeywordHit(rows) ==
    /\ results_data' = rows
    /\ relevant_docs' = ToDocuments(rows)
    /\ pc' = "generate"

\* 1. the filter with all the extracted fields
KeywordFull ==
    /\ pc = "kw_full"
    /\ Issue(KeywordQuery(condiciones))
    /\ LET rows == build_and_execute(condiciones, documentos, historial)
       IN  IF rows # <<>>
           THEN KeywordHit(rows) /\ UNCHANGED combos
           ELSE /\ pc' = "kw_pairs"
                /\ UNCHANGED <<results_data, relevant_docs, combos>>
    /\ UNCHANGED <<environ, request, query_embedding, documentos, historial, historial_str, routing,
                   args_dict, resultado_crudo, condiciones, respuesta_final,
                   outcome>>

\* 2. the pairs of the priority fields, until one finds rows
KeywordPair ==
    /\ pc = "kw_pairs"
    /\ combos # <<>>
    /\ Issue(KeywordQuery(Head(combos)))
    /\ LET rows == build_and_execute(Head(combos), documentos, historial)
       IN  IF rows # <<>>
           THEN KeywordHit(rows) /\ UNCHANGED combos
           ELSE /\ combos' = Tail(combos)
                /\ UNCHANGED <<pc, results_data, relevant_docs>>
    /\ UNCHANGED <<environ, request, query_embedding, documentos, historial, historial_str, routing,
                   args_dict, resultado_crudo, condiciones, respuesta_final,
                   outcome>>

\* a keyword query that the store fails: the exception leaves
\* retrieve_context and reaches the except clause of query_agent
KeywordQueryFails ==
    /\ \/ pc = "kw_full" /\ Issue(KeywordQuery(condiciones))
       \/ pc = "kw_pairs" /\ combos # <<>> /\ Issue(KeywordQuery(Head(combos)))
    /\ Raise500("StoreUnavailable")
    /\ UNCHANGED <<environ, request, query_embedding, documentos, historial, historial_str, routing,
                   args_dict, resultado_crudo, condiciones, combos,
                   results_data, relevant_docs, respuesta_final>>

EmbedCallOf ==
    ModelCall("embed_content", "models/embedding-001", "RETRIEVAL_QUERY",
              [query |-> request.query])

\* _create_embedding: the vector, or None when embed_content raises
create_embedding(r) == IF r = "raises" THEN "None" ELSE r

\* mutant: the similarity query is sent whatever the embedding is
AfterEmbedding_NoCheck(embedding) ==
    pc' = "rpc" /\ UNCHANGED relevant_docs

\* if not query_embedding: return []
AfterEmbedding(embedding) ==
    IF embedding \in {"None", "empty"}
    THEN pc' = "generate" /\ relevant_docs' = <<>>
    ELSE pc' = "rpc" /\ UNCHANGED relevant_docs

\* 3. semantic search, when no keyword query found rows
Embed ==
    /\ pc = "kw_pairs"
    /\ combos = <<>>
    /\ Issue(EmbedCallOf)
    /\ \E r \in EmbedOutcomes :
          /\ query_embedding' = create_embedding(r)
          /\ AfterEmbedding(query_embedding')
    /\ UNCHANGED <<environ, request, documentos, historial, historial_str, routing,
                   args_dict, resultado_crudo, condiciones, combos,
                   results_data, respuesta_final, outcome>>

SimilarityCallOf == RpcMatch(DefaultMatchThreshold, DefaultMatchCount)

\* mutant: an empty answer of the similarity search raises
SemanticReturn_RaisesOnEmpty(rows) ==
    IF rows = <<>>
    THEN Raise500("IndexError") /\ UNCHANGED <<results_data, relevant_docs>>
    ELSE /\ results_data' = rows
         /\ relevant_docs' = ToDocuments(rows)
         /\ pc' = "generate"
         /\ UNCHANGED outcome

\* if response.data: results_data = response.data; then the Documents
SemanticReturn(rows) ==
    /\ results_data' = rows
    /\ relevant_docs' = ToDocuments(rows)
    /\ pc' = "generate"
    /\ UNCHANGED outcome

SimilaritySearch ==
    /\ pc = "rpc"
    /\ Issue(SimilarityCallOf)
    /\ \E n \in {0, 1, MaxNear}, sim \in {DefaultMatchThreshold, 100} :
          SemanticReturn(MatchDocumentos(SimilarityCallOf, documentos, n, sim))
    /\ UNCHANGED <<environ, request, query_embedding, documentos, historial, historial_str, routing,
                   args_dict, resultado_crudo, condiciones, combos,
                   respuesta_final>>

SimilaritySearchFails ==
    /\ pc = "rpc"
    /\ Issue(SimilarityCallOf)
    /\ Raise500("StoreUnavailable")
    /\ UNCHANGED <<environ, request, query_embedding, documentos, historial, historial_str, routing,
                   args_dict, resultado_crudo, condiciones, combos,
                   results_data, relevant_docs, respuesta_final>>

\* ---- the answer: general knowledge without documents, RAG with them
GeneralCallOf ==
    ModelCall("generate_content", "gemini-1.5-flash", "general",
              [query |-> request.query, historial |-> historial_str])

GenerateNoContext ==
    /\ pc = "generate"
    /\ relevant_docs = <<>>
    /\ Issue(GeneralCallOf)
    /\ \E text \in LlmTexts : respuesta_final' = Strip(text)
    /\ pc' = "save_rag"
    /\ UNCHANGED <<environ, request, query_embedding, documentos, historial, historial_str, routing,
                   args_dict, resultado_crudo, condiciones, combos,
                   results_data, relevant_docs, outcome>>

GenerateNoContextFails ==
    /\ pc = "generate"
    /\ relevant_docs = <<>>
    /\ Issue(GeneralCallOf)
    /\ Raise500("GenerationFailure")
    /\ UNCHANGED <<environ, request, query_embedding, documentos, historial, historial_str, routing,
                   args_dict, resultado_crudo, condiciones, combos,
                   results_data, relevant_docs, respuesta_final>>

\* mutant: the context block holds the first document only
GenerateCallOf_FirstDocument ==
    ModelCall("generate_content", "gemini-1.5-flash", "generate_response",
              [query |-> request.query,
               context |-> documents_to_string(<<relevant_docs[1]>>),
               historial |-> historial_str])

GenerateCallOf ==
    ModelCall("generate_content", "gemini-1.5-flash", "generate_response",
              [query |-> request.query,
               context |-> documents_to_string(relevant_docs),
               historial |-> historial_str])

\* generator.generate_response: the text of the model, or the fallback
\* message when the call raises
generate_response ==
    /\ pc = "generate"
    /\ relevant_docs # <<>>
    /\ Issue(GenerateCallOf)
    /\ \/ \E text \in LlmTexts : respuesta_final' = text
       \/ respuesta_final' = FallbackMessage
    /\ pc' = "save_rag"
    /\ UNCHANGED <<environ, request, query_embedding, documentos, historial, historial_str, routing,
                   args_dict, resultado_crudo, condiciones, combos,
                   results_data, relevant_docs, outcome>>

\* ---- the history append and the response
InsertCallOf ==
    InsertQuery("conversacion_historial",
                HistoryRows(request.user_id, request.query, respuesta_final))

\* QueryResponse(response=..., source_documents=...)
ResponseOf ==
    [ kind |-> "response", response |-> respuesta_final,
      source_documents |-> IF pc = "save_rag" THEN Some(relevant_docs) ELSE <<>> ]

\* mutant: the insert is placed before the generation call of the path
SaveHistory_BeforeAnswer ==
    /\ pc \in {"refine", "generate", "save_fc", "save_rag"}
    /\ Truthy(request.user_id)
    /\ Issue(InsertCallOf)
    /\ historial' = historial \o InsertCallOf.rows
    /\ IF pc \in {"save_fc", "save_rag"}
       THEN outcome' = ResponseOf /\ pc' = "done"
       ELSE UNCHANGED <<outcome, pc>>
    /\ UNCHANGED <<environ, request, query_embedding, documentos, historial_str, routing, args_dict,
                   resultado_crudo, condiciones, combos, results_data,
                   relevant_docs, respuesta_final>>

SaveHistory ==
    /\ pc \in {"save_fc", "save_rag"}
    /\ Truthy(request.user_id)
    /\ Issue(InsertCallOf)
    /\ historial' = historial \o InsertCallOf.rows
    /\ outcome' = ResponseOf
    /\ pc' = "done"
    /\ UNCHANGED <<environ, request, query_embedding, documentos, historial_str, routing, args_dict,
                   resultado_crudo, condiciones, combos, results_data,
                   relevant_docs, respuesta_final>>

SaveHistoryFails ==
    /\ pc \in {"save_fc", "save_rag"}
    /\ Truthy(request.user_id)
    /\ Issue(InsertCallOf)
    /\ Raise500("StoreUnavailable")
    /\ UNCHANGED <<environ, request, query_embedding, documentos, historial, historial_str, routing,
                   args_dict, resultado_crudo, condiciones, combos,
                   results_data, relevant_docs, respuesta_final>>

Respond ==
    /\ pc \in {"save_fc", "save_rag"}
    /\ ~ Truthy(request.user_id)
    /\ outcome' = ResponseOf
    /\ pc' = "done"
    /\ UNCHANGED <<environ, request, query_embedding, documentos, historial, historial_str, routing,
                   args_dict, resultado_crudo, condiciones, combos,
                   results_data, relevant_docs, respuesta_final, calls>>

Next ==
    \/ ImportEndpoints
    \/ ReadHistory
    \/ ReadHistoryFails
    \/ SkipHistory
    \/ RoutingCall
    \/ RoutingCallFails
    \/ StructuredRaises
    \/ StructuredOk
    \/ StructuredStoreFails
    \/ Refine
    \/ RefineFails
    \/ RetrieveStart
    \/ KeywordFull
    \/ KeywordPair
    \/ KeywordQueryFails
    \/ Embed
    \/ SimilaritySearch
    \/ SimilaritySearchFails
    \/ GenerateNoContext
    \/ GenerateNoContextFails
    \/ generate_response
    \/ SaveHistory
    \/ SaveHistoryFails
    \/ Respond

Spec == Init /\ [][Next]_vars

---------------------------------------------------------------------------
(* retrieve_context called on its own, over more query texts               *)

Q_DosClientes == <<"G","o","o","d","y","e","a","r"," ","A","r","c","o","r"," ","T","2","0","9">>

Q_DosTractos == <<"T","2","0","9"," ","T","3","1","0">>

\* container identifiers (with a space, without, 6 digits, with a check
\* digit) between a text before and a text after; the queries of Queries;
\* queries with two values of one field
RetrieveQueries ==
    LET Ids ==
            { <<"T","C","N","U"," ","5","7","5","4","5","6","8">>,
              <<"T","C","N","U","5","7","5","4","5","6","8">>,
              <<"M","S","K","U"," ","1","2","3","4","5","6">>,
              <<"T","C","N","U"," ","5","7","5","4","5","6","8","-","2">> }
        Before == { <<>>, <<"v","e","r"," ">>, <<"x">> }
        After == { <<>>, <<" ","e","s","t","a","d","o">>, <<"?">> }
    IN  { b \o id \o a : b \in Before, id \in Ids, a \in After }
        \cup Queries \cup {Q_DosClientes, Q_DosTractos}

F_Contenedor ==
    <<"C","o","n","t","e","n","e","d","o","r",":"," ",
      "T","C","N","U"," ","5","7","5","4","5","6","8","-","2"," ",
      "E","s","t","a","d","o",":"," ","C","A","R","G","A"," ","C","L","I","E","N","T","E">>

\* the stores of Stores, and one that also holds a container fragment
RetrieveStores ==
    Stores \cup { Store(1, 1) \o << [id |-> 3, fragmento |-> F_Contenedor, fuente |-> Fuente] >> }

InitRetrieve ==
    /\ environ = Credentials
    /\ pc = "retrieve"
    /\ request \in [query : RetrieveQueries, user_id : {None}]
    /\ documentos \in RetrieveStores
    /\ historial = <<>>
    /\ historial_str = <<>>
    /\ routing = <<>>
    /\ args_dict = <<>>
    /\ resultado_crudo = <<>>
    /\ condiciones = <<>>
    /\ combos = <<>>
    /\ results_data = <<>>
    /\ query_embedding = "unset"
    /\ relevant_docs = <<>>
    /\ respuesta_final = <<>>
    /\ outcome = [kind |-> "none"]
    /\ calls = <<>>

NextRetrieve ==
    \/ RetrieveStart
    \/ KeywordFull
    \/ KeywordPair
    \/ KeywordQueryFails
    \/ Embed
    \/ SimilaritySearch
    \/ SimilaritySearchFails

SpecRetrieve == InitRetrieve /\ [][NextRetrieve]_vars

---------------------------------------------------------------------------
(* Properties                                                              *)

\* the calls of the log that satisfy P
CallsWhere(P(_)) == {i \in 1..Len(calls) : P(calls[i])}

\* a query sent by build_and_execute
IsKeywordCall(c) ==
    c.api = "select" /\ c.target = "documentos_embeddings"
    /\ c.columns = {"fragmento", "fuente"}

IsEmbedCall(c) == c.api = "embed_content"

IsMatchCall(c) == c.api = "rpc" /\ c.target = "match_documentos"

IsInsertCall(c) == c.api = "insert"

\* the rows the store holds for a keyword query
RowsOf(c) == QueryData(c, documentos, historial)

\* retrieve_context has returned to query_agent
Retrieved == pc \in {"generate", "save_rag", "done"}

\* the step of the request that raised, when it failed
FailedAt(steps) == outcome.kind = "http500" /\ outcome.at \in steps

RetrievalSteps == {"retrieve", "kw_full", "kw_pairs", "rpc"}

\* the keyword query that found rows, answered by the store
KeywordAnswered(i) ==
    /\ IsKeywordCall(calls[i])
    /\ RowsOf(calls[i]) # <<>>
    /\ ~ (i = Len(calls) /\ FailedAt({"kw_full", "kw_pairs"}))

(* C1: in retrieve_context, when a keyword filter query (the full filter  *)
(* or a pair of the fallback) returns at least one row, neither the        *)
(* embedding call nor the similarity RPC match_documentos is made, and the *)
(* documents returned are exactly the rows of that keyword query.          *)
C1_KeywordShortCircuit ==
    \A i \in 1..Len(calls) :
        KeywordAnswered(i) =>
            /\ CallsWhere(IsEmbedCall) = {}
            /\ CallsWhere(IsMatchCall) = {}
            /\ \A j \in (i + 1)..Len(calls) : ~ IsKeywordCall(calls[j])
            /\ Retrieved =>
                 LET rows == RowsOf(calls[i])
                 IN  /\ Len(relevant_docs) = Len(rows)
                     /\ \A j \in 1..Len(rows) :
                          /\ relevant_docs[j].page_content = rows[j].fragmento
                          /\ relevant_docs[j].metadata.source = rows[j].fuente

\* a pair of the fallback found rows after the full filter found none, and
\* the request was answered
C1_Witness ==
    /\ pc = "done"
    /\ relevant_docs # <<>>
    /\ \E i \in 1..Len(calls) : KeywordAnswered(i) /\ calls[i].ilike # condiciones
    /\ \E i \in 1..Len(calls) : IsKeywordCall(calls[i]) /\ calls[i].ilike = condiciones

\* the routing model called consultar_bd and the structured step has run
StructuredDone ==
    IsConsultarBdCall(routing) /\ pc \notin {"start", "route", "structured"}

\* consultar_bd returned a value to query_agent
StructuredReturned ==
    /\ IsConsultarBdCall(routing)
    /\ pc \in {"refine", "save_fc", "done"} \/ FailedAt({"refine", "save_fc"})

IsRoutingCall(c) == c.api = "generate_content" /\ c.purpose = "routing"

\* the calls consultar_bd made to the store
StructuredCalls ==
    IF IsConsultarBdCall(routing)
    THEN {i \in 2..Len(calls) : IsRoutingCall(calls[i - 1])}
    ELSE {}

\* the text filters of a call of consultar_bd, as pairs (column, text)
FiltersOf(c) == IF c.api = "rpc" THEN c.p_filtros ELSE c.ilike

\* the filter mapping the routing model supplied
SuppliedFiltros ==
    IF "filtros" \in DOMAIN routing[1][1].args THEN routing[1][1].args["filtros"]
    ELSE <<>>

(* C2: on the structured path, whatever filter mapping the language model *)
(* supplies, every text filter that reaches the store has exactly one key, *)
(* 'fragmento', whose value contains each supplied filter value; no store  *)
(* filter is applied to another column.                                    *)
C2_FiltersCoerced ==
    \A i \in StructuredCalls :
        LET fs == FiltersOf(calls[i])
        IN  /\ Len(fs) <= 1
            /\ (SuppliedFiltros # <<>> \/ calls[i].api = "rpc") => Len(fs) = 1
            /\ \A j \in 1..Len(fs) :
                 /\ fs[j][1] = "fragmento"
                 /\ \A k \in 1..Len(SuppliedFiltros) :
                      Contains(fs[j][2], SuppliedFiltros[k][2])

\* two filters on two columns were supplied, one filter reached the store,
\* and the store answered
C2_Witness ==
    /\ pc = "refine"
    /\ Len(SuppliedFiltros) = 2
    /\ SuppliedFiltros[1][1] # "fragmento"
    /\ \E i \in StructuredCalls :
          /\ calls[i].api = "select"
          /\ Len(FiltersOf(calls[i])) = 1
          /\ QueryCount(calls[i], documentos, historial) > 0

AggregateOps == {Op_SUM, Op_AVG, Op_MAX, Op_MIN, Op_DISTINCT}

\* the filter text of the structured query is absent or empty
FilterTextEmpty(d) ==
    NotFiltros(d) \/ \A j \in 1..Len(d["filtros"]) : d["filtros"][j][2] = <<>>

(* C3: for SUM, AVG, MAX, MIN and SELECT DISTINCT the structured query    *)
(* fails validation without any call to the store whenever the regex       *)
(* column or the filter text is absent or empty, and makes exactly one     *)
(* aggregation call when both are non-empty.                               *)
C3_AggregateValidation ==
    ( /\ StructuredDone
      /\ "operacion" \in DOMAIN args_dict
      /\ Upper(args_dict["operacion"]) \in AggregateOps )
    => IF NotColumna(args_dict) \/ FilterTextEmpty(args_dict)
       THEN /\ StructuredCalls = {}
            /\ FailedAt({"structured"})
            /\ outcome.detail = "ValueError"
       ELSE /\ Cardinality(StructuredCalls) = 1
            /\ \A i \in StructuredCalls : calls[i].api = "rpc"

(* C4: for operation SELECT consultar_bd returns at most 10 rows, for     *)
(* every filter and store content, also when more than 10 rows match and   *)
(* when no filter is supplied.                                             *)
C4_SelectCapped ==
    (StructuredReturned /\ resultado_crudo.kind = "rows")
    => Len(resultado_crudo.value) <= 10

\* a SELECT without filter on a table of more than 10 rows returned 10
C4_Witness ==
    /\ StructuredReturned
    /\ resultado_crudo.kind = "rows"
    /\ Len(resultado_crudo.value) = 10
    /\ \E i \in StructuredCalls :
          /\ calls[i].ilike = <<>>
          /\ QueryCount(calls[i], documentos, historial) > 10

(* C5: for every query and requested match_count (default 5), the list    *)
(* returned by retrieve_context has at most match_count documents, from    *)
(* the keyword path as from the semantic path.                             *)
C5_AtMostMatchCount ==
    Retrieved => Len(relevant_docs) <= DefaultMatchCount

\* the similarity query was answered by the store
MatchAnswered ==
    /\ CallsWhere(IsMatchCall) # {}
    /\ ~ (FailedAt({"rpc"}) /\ outcome.detail = "StoreUnavailable")

(* C6: when every keyword query returns no rows and the similarity search *)
(* returns no rows (and no store call fails), retrieve_context returns an  *)
(* empty list and does not raise.                                          *)
C6_EmptyNotFailure ==
    (MatchAnswered /\ results_data = <<>>)
    => /\ relevant_docs = <<>>
       /\ ~ FailedAt(RetrievalSteps)
       /\ pc \in {"generate", "save_rag", "done", "failed"}

\* keyword queries and the similarity search found nothing in a store that
\* holds rows, and retrieve_context returned
C6_Witness ==
    /\ pc = "generate"
    /\ MatchAnswered
    /\ results_data = <<>>
    /\ relevant_docs = <<>>
    /\ CallsWhere(IsKeywordCall) # {}
    /\ documentos # <<>>

(* C7: when the keyword path yields no rows and the embedding collaborator *)
(* raises or returns no vector, retrieve_context returns an empty list,    *)
(* does not raise and does not issue match_documentos.                     *)
C7_NoEmbeddingNoSearch ==
    query_embedding \in {"None", "empty"}
    => /\ relevant_docs = <<>>
       /\ CallsWhere(IsMatchCall) = {}
       /\ ~ FailedAt(RetrievalSteps)
       /\ pc \in {"generate", "save_rag", "done", "failed"}

\* the embedding call raised after keyword queries that found nothing, and
\* the request was answered
C7_Witness ==
    /\ pc = "done"
    /\ query_embedding = "None"
    /\ CallsWhere(IsKeywordCall) # {}
    /\ CallsWhere(IsEmbedCall) # {}
    /\ outcome.source_documents = Some(<<>>)

(* C8: a run of query_agent that returns a response appends exactly two   *)
(* entries to the history, the user turn with the query and then the       *)
(* assistant turn with the returned text, when the request carries a user  *)
(* id, and nothing when it carries none; no other step changes the history.*)
C8_HistoryAppend ==
    [][ IF outcome.kind = "none" /\ outcome'.kind = "response"
        THEN IF Truthy(request.user_id)
             THEN historial' = historial \o
                    << [id_usuario |-> request.user_id, rol |-> <<"u","s","e","r">>,
                        contenido |-> request.query],
                       [id_usuario |-> request.user_id, rol |-> <<"a","i">>,
                        contenido |-> outcome'.response] >>
             ELSE historial' = historial
        ELSE historial' = historial ]_vars

\* a structured query answered for a user, the two turns at the end of the
\* history
C8_Witness ==
    /\ pc = "done"
    /\ IsConsultarBdCall(routing)
    /\ Truthy(request.user_id)
    /\ Len(historial) >= 2
    /\ historial[Len(historial)].contenido = outcome.response
    /\ historial[Len(historial) - 1].contenido = request.query

(* C9: if the history append fails after the answer has been generated,   *)
(* query_agent still returns the generated answer; a failed append never   *)
(* fails the request.                                                      *)
C9_AppendFailureAbsorbed ==
    CallsWhere(IsInsertCall) # {}
    => outcome.kind = "response" /\ outcome.response = respuesta_final

(* C10: a failure of any language-model call of query_agent (routing,     *)
(* refinement, no-context answer, generate_response) is recovered with a   *)
(* fixed fallback message: the request still returns a response.           *)
C10_GenerationRecovered ==
    ~ (FailedAt({"route", "refine", "generate"})
       /\ outcome.detail = "GenerationFailure")

\* a credential of the retriever is missing from the environment
CredentialsMissing == ~ (Credentials \subseteq environ)

(* C11: when the required collaborator credentials are missing, so that   *)
(* the retriever cannot be constructed, every request to query_agent ends  *)
(* in a service-unavailable (503) outcome, distinct from the generic       *)
(* failure (500) outcome.                                                  *)
C11_Unavailable503 ==
    (CredentialsMissing /\ pc # "import") => outcome.kind = "http503"

\* the identifiers container_id_pattern finds in a text
ContainerIdsIn(s) == {M_container_id(s, i) : i \in 1..Len(s)} \ {<<>>}

\* some value of the list contains the text
SomeContains(values, s) == \E j \in 1..Len(values) : Contains(values[j], s)

(* C12: for every query that contains a well-formed container identifier  *)
(* (4 upper-case letters, an optional space, 6 or 7 digits), whatever the  *)
(* surrounding text, extractar_valores_relevantes returns the prefix and   *)
(* the serial number in field 'contenedor', and the keyword filter of      *)
(* retrieve_context requires both the prefix and the serial number.        *)
C12_ContainerExtracted ==
    pc # "retrieve" =>
        \A id \in ContainerIdsIn(request.query) :
            LET contenedor == extractar_valores_relevantes(request.query).contenedor
                filtro == [j \in 1..Len(condiciones) |-> condiciones[j][2]]
            IN  /\ \E j \in 1..Len(contenedor) :
                      Contains(contenedor[j], id[1]) /\ Contains(contenedor[j], id[2])
                /\ SomeContains(filtro, id[1])
                /\ SomeContains(filtro, id[2])

\* the seven operations of consultar_bd
Operations == {Op_SELECT, Op_COUNT, Op_SUM, Op_AVG, Op_MAX, Op_MIN, Op_DISTINCT}

\* the structured step has run with an operation outside the seven
UnknownOperation ==
    /\ StructuredDone
    /\ "operacion" \in DOMAIN args_dict
    /\ Upper(args_dict["operacion"]) \notin Operations

(* C13: consultar_bd called with an operation outside SELECT, COUNT, SUM, *)
(* AVG, MAX, MIN, SELECT DISTINCT (compared without case) fails with an    *)
(* error and executes no query against the store.                          *)
C13_UnknownOperationFails ==
    UnknownOperation
    => /\ StructuredCalls = {}
       /\ FailedAt({"structured"})
       /\ outcome.detail \in {"ValueError", "TypeError"}

\* operation DELETE with a filter: the request failed with ValueError and
\* the routing call is the only call made
C13_Witness ==
    /\ UnknownOperation
    /\ args_dict["operacion"] = <<"D","E","L","E","T","E">>
    /\ "filtros" \in DOMAIN args_dict
    /\ outcome = [kind |-> "http500", detail |-> "ValueError", at |-> "structured"]
    /\ IsRoutingCall(calls[Len(calls)])

\* the keyword queries sent after the full filter (which is the first call
\* of retrieve_context when there are conditions)
PairCalls ==
    {i \in 1..Len(calls) : IsKeywordCall(calls[i]) /\ (condiciones # <<>> => i > 1)}

(* C14: when the full filter returns no rows, the fallback sends two-field *)
(* filters for the unordered pairs of the priority fields (tracto,         *)
(* cliente, fecha_emision, contenedor, conductor) that have a value, in    *)
(* the lexicographic order of that list, each with the first value of its  *)
(* two fields; it stops after the first pair that returns rows; with fewer *)
(* than two such fields it sends no fallback query.                        *)
C14_PairFallback ==
    LET valores == extractar_valores_relevantes(request.query)
        P == <<"tracto", "cliente", "fecha_emision", "contenedor", "conductor">>
        has == {k \in 1..5 : valores[P[k]] # <<>>}
        pairs == {x \in has \X has : x[1] < x[2]}
        Earlier(x, y) == x[1] < y[1] \/ (x[1] = y[1] /\ x[2] < y[2])
        rank(x) == Cardinality({y \in pairs : Earlier(y, x)}) + 1
        nFull == IF condiciones # <<>> THEN 1 ELSE 0
    IN  /\ \A i \in PairCalls :
              /\ nFull = 1 => RowsOf(calls[1]) = <<>>
              /\ \E x \in pairs :
                    /\ rank(x) = i - nFull
                    /\ calls[i].ilike = << <<"fragmento", valores[P[x[1]]][1]>>,
                                           <<"fragmento", valores[P[x[2]]][1]>> >>
              /\ \A j \in PairCalls : j < i => RowsOf(calls[j]) = <<>>
              /\ KeywordAnswered(i) => i = Len(calls)
        /\ CallsWhere(IsEmbedCall) # {} => Cardinality(PairCalls) = Cardinality(pairs)
        /\ Cardinality(has) < 2 => PairCalls = {}

\* three priority fields have a value; the full filter and the first two
\* pairs found nothing, the third pair found rows, and these were returned
C14_Witness ==
    /\ pc = "generate"
    /\ Cardinality(PairCalls) = 3
    /\ Len(calls) = 4
    /\ KeywordAnswered(4)
    /\ relevant_docs # <<>>

(* C15: the full filter built by retrieve_context holds, for each field   *)
(* with at least one extracted value, exactly one condition, on the first  *)
(* extracted value of that field; later values of a field add none.        *)
C15_FirstValueOnly ==
    pc # "retrieve" =>
        LET valores == extractar_valores_relevantes(request.query)
            con == SelectSeq(mapeo_campos, LAMBDA campo : valores[campo] # <<>>)
        IN  condiciones = [j \in 1..Len(con) |-> <<"fragmento", valores[con[j]][1]>>]

\* the routing call has been answered
RoutingDone ==
    /\ pc \notin {"import", "import_failed", "start", "route"}
    /\ ~ FailedAt({"start", "route"})

\* the request is, or ended, on the structured path
OnStructuredPath ==
    \/ pc \in {"structured", "refine", "save_fc"}
    \/ FailedAt({"structured", "refine", "save_fc"})
    \/ pc = "done" /\ outcome.source_documents = <<>>

\* the request is, or ended, on the retrieval path
OnRetrievalPath ==
    \/ pc \in RetrievalSteps \cup {"generate", "save_rag"}
    \/ FailedAt(RetrievalSteps \cup {"generate", "save_rag"})
    \/ pc = "done" /\ outcome.source_documents # <<>>

IsRefineCall(c) == c.api = "generate_content" /\ c.purpose = "refine"

\* a call made by retrieve_context or for the answer built on its result
IsRetrievalCall(c) ==
    \/ IsKeywordCall(c) \/ IsEmbedCall(c) \/ IsMatchCall(c)
    \/ c.api = "generate_content" /\ c.purpose \in {"general", "generate_response"}

(* C16: in one run of query_agent the structured query and the retrieval  *)
(* exclude each other and the routing response alone decides: consultar_bd *)
(* and then the refinement call run, and retrieve_context never, exactly   *)
(* when the first part of the routing response is a function call named    *)
(* 'consultar_bd'; in every other case (free text, no call, another name)  *)
(* retrieve_context runs and consultar_bd does not.                        *)
C16_RoutingDecides ==
    RoutingDone =>
        IF /\ Len(routing) >= 1
           /\ Len(routing[1]) >= 1
           /\ routing[1][1].kind = "function_call"
           /\ routing[1][1].name = "consultar_bd"
        THEN /\ OnStructuredPath
             /\ CallsWhere(IsRetrievalCall) = {}
             /\ condiciones = <<>> /\ combos = <<>> /\ relevant_docs = <<>>
             /\ pc # "structured" => DOMAIN args_dict # {}
             /\ (pc \in {"save_fc", "done"} \/ FailedAt({"refine", "save_fc"}))
                   <=> Cardinality(CallsWhere(IsRefineCall)) = 1
             /\ CallsWhere(IsRefineCall) # {} => resultado_crudo # <<>>
        ELSE /\ OnRetrievalPath
             /\ DOMAIN args_dict = {}
             /\ resultado_crudo = <<>>
             /\ CallsWhere(IsRefineCall) = {}
             /\ \A i \in 1..Len(calls) :
                   \/ IsRetrievalCall(calls[i]) \/ IsInsertCall(calls[i])
                   \/ IsRoutingCall(calls[i])
                   \/ calls[i] = HistoryQuery(request.user_id)
             /\ pc \in {"generate", "save_rag", "done"} => CallsWhere(IsRetrievalCall) # {}

\* the routing response called a function with another name, and the
\* request was answered from the retrieval
C16_Witness ==
    /\ pc = "done"
    /\ routing = << <<FunctionCall("otra_funcion", SampleCall.args)>> >>
    /\ CallsWhere(IsKeywordCall) # {}
    /\ outcome.source_documents # <<>>

IsGeneralCall(c) == c.api = "generate_content" /\ c.purpose = "general"

IsGenerateResponseCall(c) == c.api = "generate_content" /\ c.purpose = "generate_response"

\* how many documents a context block closes with its "---" line
Terminators(s) ==
    Cardinality({i \in 1..(Len(s) - 3) : SubSeq(s, i, i + 3) = <<"\n", "-", "-", "-">>})

\* the retrieval path has made its generation call
Answered ==
    \/ pc = "save_rag"
    \/ FailedAt({"generate", "save_rag"})
    \/ pc = "done" /\ outcome.source_documents # <<>>

(* C17: on the retrieval path an empty retrieval result leads to the      *)
(* no-context generation call and never to generate_response; a non-empty  *)
(* result leads to generate_response, with the context block built from    *)
(* all retrieved documents, and never to the no-context call; exactly one  *)
(* of the two generation calls is made per request.                        *)
C17_OneGenerationCall ==
    LET general == CallsWhere(IsGeneralCall)
        rag == CallsWhere(IsGenerateResponseCall)
    IN  /\ Cardinality(general) + Cardinality(rag) <= 1
        /\ Answered => Cardinality(general) + Cardinality(rag) = 1
        /\ general # {} => relevant_docs = <<>>
        /\ \A i \in rag :
              /\ relevant_docs # <<>>
              /\ calls[i].input.context = documents_to_string(relevant_docs)
              /\ Terminators(calls[i].input.context) = Len(relevant_docs)
              /\ calls[i].input.query = request.query
        /\ Answered => (relevant_docs = <<>> <=> general # {})

\* generate_response was called with the block of more than one document
C17_Witness ==
    /\ pc = "done"
    /\ Len(relevant_docs) >= 2
    /\ \E i \in CallsWhere(IsGenerateResponseCall) :
          Terminators(calls[i].input.context) = Len(relevant_docs)
    /\ CallsWhere(IsGeneralCall) = {}

\* a call to the data store
IsStoreCall(c) == c.api \in {"select", "rpc", "insert"}

(* C18: a failure of a data-store call during a run of query_agent        *)
(* (history read, keyword filter, similarity RPC, structured query) ends   *)
(* the run in the one generic failure outcome, and the failed call is not  *)
(* issued again: every step issues at most one call and then either moves  *)
(* on or fails, and nothing follows a failure.                             *)
C18_StoreFailureNoRetry ==
    [][ /\ pc # "failed"
        /\ calls' # calls =>
              /\ Len(calls') = Len(calls) + 1
              /\ SubSeq(calls', 1, Len(calls)) = calls
              /\ pc' # pc \/ combos' # combos
        /\ pc' = "failed" <=> outcome'.kind = "http500"
        /\ (outcome'.kind = "http500" /\ outcome'.detail = "StoreUnavailable") =>
              /\ Len(calls') = Len(calls) + 1
              /\ IsStoreCall(calls'[Len(calls')])
              /\ outcome'.at = pc
              /\ historial' = historial ]_vars

\* the similarity RPC failed after keyword queries without rows: the
\* request failed and the RPC was issued once
C18_Witness ==
    /\ pc = "failed"
    /\ outcome = [kind |-> "http500", detail |-> "StoreUnavailable", at |-> "rpc"]
    /\ IsMatchCall(calls[Len(calls)])
    /\ Cardinality(CallsWhere(IsMatchCall)) = 1
    /\ CallsWhere(IsKeywordCall) # {}

\* the store holds a fragment that contains the truck code T209
HoldsT209 == \E j \in 1..Len(documentos) : ILike(documentos[j].fragmento, Q_T209)

(* C19: for a question in natural language that names a truck code (the   *)
(* question "Cuantos contenedores tiene el tractor T209?"), whenever the   *)
(* store holds a fragment with that code, retrieve_context returns rows    *)
(* found by the keyword filter on the code and does not start the semantic *)
(* search; the other words of the question add no condition that prevents  *)
(* the match.                                                              *)
C19_TruckCodeQuestion ==
    (request.query = Q_Tractor /\ HoldsT209) =>
        /\ CallsWhere(IsEmbedCall) = {}
        /\ CallsWhere(IsMatchCall) = {}
        /\ pc = "generate" =>
              /\ relevant_docs # <<>>
              /\ \A j \in 1..Len(relevant_docs) :
                    ILike(relevant_docs[j].page_content, Q_T209)

(* C20: every query that consultar_bd issues through the query builder on  *)
(* behalf of query_agent is against the table documentos_embeddings,       *)
(* whatever table name the routing model supplied in its function call.    *)
C20_OnlyDocumentosTable ==
    \A i \in StructuredCalls :
        calls[i].api = "select" => calls[i].target = "documentos_embeddings"

\* the steps of query_agent that come before the history append
StepsBeforeAppend ==
    {"start", "route", "structured", "refine", "retrieve", "kw_full",
     "kw_pairs", "rpc", "generate"}

\* the insert calls among the calls cs
InsertCalls(cs) == {i \in 1..Len(cs) : IsInsertCall(cs[i])}

\* the call that produced the final answer text has been made
AnswerGenerated ==
    \E i \in 1..Len(calls) :
        IsRefineCall(calls[i]) \/ IsGeneralCall(calls[i])
            \/ IsGenerateResponseCall(calls[i])

(* C21: a run of query_agent that fails at a step before the history       *)
(* append (history read, routing call, structured query, refinement,       *)
(* retrieval, generation) has issued no history insert and leaves the      *)
(* history as it was: the history changes only by an insert call, the      *)
(* insert is issued only at the append step, after the call that produced  *)
(* the final answer text, with that text as the assistant turn, and at     *)
(* most once per request.                                                  *)
C21_FailureLeavesHistory ==
    [][ /\ historial' # historial
            => Cardinality(InsertCalls(calls')) = Cardinality(InsertCalls(calls)) + 1
        /\ InsertCalls(calls') # InsertCalls(calls)
            => /\ pc \in {"save_fc", "save_rag"}
               /\ outcome.kind = "none"
               /\ AnswerGenerated
               /\ InsertCalls(calls) = {}
               /\ InsertCalls(calls') = {Len(calls')}
               /\ calls'[Len(calls')].rows[2].contenido = respuesta_final
        /\ (outcome'.kind = "http500" /\ outcome'.at \in StepsBeforeAppend)
            => historial' = historial /\ InsertCalls(calls') = {} ]_vars

\* a request of a user failed at its generation or refinement call, after
\* every earlier step had run: no insert was issued
C21_Witness ==
    /\ FailedAt({"refine", "generate"})
    /\ Truthy(request.user_id)
    /\ Len(calls) >= 2
    /\ InsertCalls(calls) = {}

=============================================================================
